---- MODULE Spec2Model ----
(***************************************************************************)
(* Subscription reconciliation of the billing portal: the plan-change      *)
(* orchestrator (SubscriptionService.handle_subscription_update) with the  *)
(* Validator, Creator, Updater and Canceller, and the Stripe webhook       *)
(* endpoint with its five handlers, running on concurrent request workers  *)
(* against one PostgreSQL row per account and one remote gateway.          *)
(*                                                                         *)
(* A Django transaction is modelled by a write buffer (tx) that becomes    *)
(* visible in db at commit and is discarded at rollback; the row lock      *)
(* taken by SELECT ... FOR UPDATE and by UPDATE is held until the          *)
(* transaction ends.  A nested transaction.atomic is a savepoint of the    *)
(* outermost one.                                                          *)
(***************************************************************************)
EXTENDS Integers, Sequences, FiniteSets, TLC

\* ------------------------------------------------------------- bounds
MaxRequests == 2
MaxAmount == 1
MaxEventIds == 2

Workers == {"w1", "w2"}
Users == {"u1"}
NoWorker == "nobody"
NoUser == "nouser"

\* ------------------------------------------------------------- constants
SUBSCRIPTION_STATUS_ACTIVE == "active"
SUBSCRIPTION_STATUS_INACTIVE == "inactive"
PLAN_BASIC == "basic"
PLAN_PRO == "pro"
PLAN_NONE == "none"
ACTIVE_STRIPE_STATUSES == {"active", "trialing"}
SUBSCRIPTION_STATUS_CHOICES == {SUBSCRIPTION_STATUS_ACTIVE, SUBSCRIPTION_STATUS_INACTIVE}
PLAN_CHOICES == {PLAN_BASIC, PLAN_PRO, PLAN_NONE}

\* Gateway identifiers: a prefix and a serial number.  None is Python's None.
None == [pfx |-> "", n |-> 0]
CusId(n) == [pfx |-> "cus_", n |-> n]
SubId(n) == [pfx |-> "sub_", n |-> n]
Truthy(id) == id # None

\* Remote subscription statuses the gateway may report, and the price
\* identifiers an event may carry ("price_other" is a price of neither plan,
\* "" an event without line items).
RemoteStatuses == {"active", "trialing", "incomplete"}
PriceBasic == "price_basic"
PricePro == "price_pro"
EventPrices == {PriceBasic, PricePro, "price_other", ""}
Amounts == {-1} \cup (0..MaxAmount)

EventTypes == {"customer.subscription.created", "customer.subscription.updated",
               "customer.subscription.deleted", "invoice.paid",
               "invoice.payment_failed"}

VARIABLES
    settings,       \* STRIPE_SECRET_KEY / WEBHOOK_SECRET / price ids: set or not
    db,             \* committed account rows
    rowlock,        \* which worker's transaction holds the row lock of a user
    customers,      \* remote customers, in creation order: the owning user
    subscriptions,  \* remote subscriptions, in creation order
    pc,             \* each worker's position in the request it serves
    req,            \* the request a worker serves: the call, the in-memory User,
                    \* and as history the row as first read, the gateway calls
                    \* made, what the gateway said to the latest one ("ok",
                    \* "not_found", "error"), whether the Validator cleared
                    \* the reference and which save failed ("validation",
                    \* "database" or "")
    tx,             \* the worker's uncommitted write of the row ({} if none)
    requests,       \* number of requests started
    last,           \* the request that ended in the last step, with what it
                    \* returned; Nothing after any other step (history)
    credited,       \* per user: sum of the amounts of committed invoice.paid saves
    invoice,        \* the tracked invoice.paid event and its deliveries (history)
    deleted         \* per user: the subscriptions whose deleted event was saved
                    \* (history)

vars == <<settings, db, rowlock, customers, subscriptions, pc, req, tx, requests,
          last, credited, invoice, deleted>>

\* ------------------------------------------------------------- the account row
\* models.py: the subscription fields of User and their defaults.
NewUser == [subscription_status |-> SUBSCRIPTION_STATUS_INACTIVE,
            current_plan |-> PLAN_NONE,
            total_amount_paid |-> 0,
            stripe_customer_id |-> None,
            stripe_subscription_id |-> None]

\* validate_user_model as it would be without its status and plan rule.
validate_user_model_without_status_rule(u) ==
    /\ ~(Truthy(u.stripe_customer_id) /\ u.stripe_customer_id.pfx # "cus_")
    /\ ~(Truthy(u.stripe_subscription_id) /\ u.stripe_subscription_id.pfx # "sub_")

\* user_validators.py: validate_user_model, TRUE when nothing is raised.
validate_user_model(u) ==
    /\ ~(Truthy(u.stripe_customer_id) /\ u.stripe_customer_id.pfx # "cus_")
    /\ ~(Truthy(u.stripe_subscription_id) /\ u.stripe_subscription_id.pfx # "sub_")
    /\ ~(u.subscription_status = SUBSCRIPTION_STATUS_ACTIVE /\ u.current_plan = PLAN_NONE)

\* Model.clean_fields for the subscription fields: choices and MinValueValidator(0).
clean_fields(u) ==
    /\ u.subscription_status \in SUBSCRIPTION_STATUS_CHOICES
    /\ u.current_plan \in PLAN_CHOICES
    /\ u.total_amount_paid >= 0

\* Model.validate_unique: stripe_customer_id is unique among the other rows.
validate_unique(uid, u) ==
    \A o \in Users \ {uid} :
        ~(Truthy(u.stripe_customer_id) /\ db[o].stripe_customer_id = u.stripe_customer_id)

\* User.save runs full_clean first; TRUE when full_clean raises nothing.
full_clean(uid, u) ==
    /\ clean_fields(u)
    /\ validate_user_model(u)
    /\ validate_unique(uid, u)

\* ------------------------------------------------------------- settings
\* settings.py: each is the empty string unless the environment sets it.
Settings == {
    [key |-> TRUE,  secret |-> TRUE,  basic |-> TRUE,  pro |-> TRUE],
    [key |-> FALSE, secret |-> TRUE,  basic |-> TRUE,  pro |-> TRUE],
    [key |-> TRUE,  secret |-> FALSE, basic |-> TRUE,  pro |-> TRUE],
    [key |-> TRUE,  secret |-> TRUE,  basic |-> FALSE, pro |-> TRUE] }

\* stripe_utils.py: get_plan_price_ids, "" for a price that is not configured.
get_plan_price_ids(plan) ==
    IF plan = PLAN_BASIC THEN (IF settings.basic THEN PriceBasic ELSE "")
    ELSE IF plan = PLAN_PRO THEN (IF settings.pro THEN PricePro ELSE "")
    ELSE ""

\* stripe_utils.py: validate_stripe_config, TRUE when the list of errors is empty.
validate_stripe_config ==
    /\ settings.key
    /\ get_plan_price_ids(PLAN_BASIC) # ""
    /\ get_plan_price_ids(PLAN_PRO) # ""

\* ------------------------------------------------------------- requests
\* verdict is what construct_event said of a delivery; tracked and again are
\* history: the delivery is one of the tracked invoice.paid event, and the
\* delivery repeats the one that ended in the step before it.
NoOp == [kind |-> "none", uid |-> NoUser, plan |-> PLAN_NONE, type |-> "",
         customer |-> None, sub |-> None, status |-> "", price |-> "", amount |-> 0,
         verdict |-> "", tracked |-> FALSE, again |-> FALSE]

NoCalls == [retrieve |-> 0, delete |-> 0, modify |-> 0, customer |-> 0, subscription |-> 0]

\* A worker that serves no request.
Idle == [op |-> NoOp, pre |-> NewUser, user |-> NewUser, calls |-> NoCalls,
         remote |-> "", cleared |-> FALSE, fault |-> ""]

Nothing == [op |-> NoOp, pre |-> NewUser, user |-> NewUser, calls |-> NoCalls,
            remote |-> "", cleared |-> FALSE, fault |-> "", ret |-> ""]

Ended(r, result) ==
    [op |-> r.op, pre |-> r.pre, user |-> r.user, calls |-> r.calls,
     remote |-> r.remote, cleared |-> r.cleared, fault |-> r.fault, ret |-> result]

\* The accounts and the gateway when the workers start.  Registered: every
\* account as registration leaves it.  Subscribed: the first account has been
\* through create_subscription for the basic plan and its activation.  Stale:
\* the same, after the provider ended that subscription on its side and before
\* any event about it was delivered.
Subscriber == [subscription_status |-> SUBSCRIPTION_STATUS_ACTIVE,
               current_plan |-> PLAN_BASIC,
               total_amount_paid |-> 0,
               stripe_customer_id |-> CusId(1),
               stripe_subscription_id |-> SubId(1)]

FirstUser == "u1"

Registered ==
    /\ db = [u \in Users |-> NewUser]
    /\ customers = <<>>
    /\ subscriptions = <<>>

Subscribed ==
    /\ db = [u \in Users |-> IF u = FirstUser THEN Subscriber ELSE NewUser]
    /\ customers = <<FirstUser>>
    /\ subscriptions = <<[customer |-> CusId(1), plan |-> PLAN_BASIC, status |-> "active",
                        live |-> TRUE]>>

Stale ==
    /\ db = [u \in Users |-> IF u = FirstUser THEN Subscriber ELSE NewUser]
    /\ customers = <<FirstUser>>
    /\ subscriptions = <<[customer |-> CusId(1), plan |-> PLAN_BASIC, status |-> "active",
                        live |-> FALSE]>>

Init ==
    /\ settings \in Settings
    /\ Registered \/ Subscribed \/ Stale
    /\ rowlock = [u \in Users |-> NoWorker]
    /\ pc = [w \in Workers |-> "idle"]
    /\ req = [w \in Workers |-> Idle]
    /\ tx = [w \in Workers |-> {}]
    /\ requests = 0
    /\ last = Nothing
    /\ credited = [u \in Users |-> 0]
    /\ invoice = [customer |-> None, amount |-> 0, deliveries |-> 0, applied |-> 0,
                  credited |-> 0]
    /\ deleted = [u \in Users |-> {}]

\* ------------------------------------------------------------- the gateway
\* A remote subscription exists (retrieve / modify / delete find it).
IsLive(id) ==
    /\ id.pfx = "sub_"
    /\ id.n \in 1..Len(subscriptions)
    /\ subscriptions[id.n].live

\* Outcomes of one gateway call: it answers, or fails transiently (network,
\* authentication, rate limit).
GatewayOutcomes == {"answer", "error"}

\* What the gateway says to a call about the subscription id: a transient
\* failure, or its answer for an id it has or has not.
Said(outcome, id) ==
    IF outcome = "error" THEN "error"
    ELSE IF IsLive(id) THEN "ok"
    ELSE "not_found"

\* The request r has made the gateway call what and heard result.
Called(r, what, result) == [r EXCEPT !.calls[what] = @ + 1, !.remote = result]

\* ------------------------------------------------------------- transactions
\* The row lock, if rows were read and written without taking it.
LockFree_without_lock(w, uid) == TRUE

\* The row lock of uid is free for w: nobody else's open transaction holds it.
LockFree(w, uid) == rowlock[uid] \in {NoWorker, w}

release(w) == [u \in Users |-> IF rowlock[u] = w THEN NoWorker ELSE rowlock[u]]

\* The rows after the outermost transaction.atomic exits normally.
committed(uid, writes) ==
    IF writes = {} THEN db ELSE [db EXCEPT ![uid] = CHOOSE r \in writes : TRUE]

\* The rows if the writes made before an exception stayed in the database.
rolled_back_keeps_writes(uid, writes) == committed(uid, writes)

\* The rows after the outermost transaction.atomic exits with an exception:
\* every write of the transaction, savepoints included, is undone.
rolled_back(uid, writes) == db

\* models.py, Meta.constraints: the CHECK constraint of the table.
total_amount_paid_non_negative(u) == u.total_amount_paid >= 0

\* User.save as it would be with skip_validation=True on a table that has no
\* CHECK constraint.
save_unchecked(uid, u, ok) == ok

\* User.save: full_clean, then the UPDATE of every column of the row.  ok is
\* whether the database carries the statement out.
save_succeeds(uid, u, ok) ==
    /\ full_clean(uid, u)
    /\ total_amount_paid_non_negative(u)
    /\ ok

\* The UPDATE waits while another transaction holds the row lock.
save_blocked(w, uid, u) == full_clean(uid, u) /\ ~LockFree(w, uid)

\* The request goes on inside its transaction.
Continue(w, nextpc, r, writes) ==
    /\ pc' = [pc EXCEPT ![w] = nextpc]
    /\ req' = [req EXCEPT ![w] = r]
    /\ tx' = [tx EXCEPT ![w] = writes]
    /\ rowlock' = IF writes = {} THEN rowlock ELSE [rowlock EXCEPT ![r.op.uid] = w]
    /\ last' = Nothing
    /\ UNCHANGED db

\* The request returns result: its transaction commits writes, and the worker
\* is free again.
Return(w, r, writes, result) ==
    /\ pc' = [pc EXCEPT ![w] = "idle"]
    /\ req' = [req EXCEPT ![w] = Idle]
    /\ tx' = [tx EXCEPT ![w] = {}]
    /\ rowlock' = release(w)
    /\ db' = committed(r.op.uid, writes)
    /\ last' = Ended(r, result)

\* An exception leaves handle_subscription_update: its transaction rolls back.
Raise(w, r) ==
    /\ pc' = [pc EXCEPT ![w] = "idle"]
    /\ req' = [req EXCEPT ![w] = Idle]
    /\ tx' = [tx EXCEPT ![w] = {}]
    /\ rowlock' = release(w)
    /\ db' = rolled_back(r.op.uid, tx[w])
    /\ last' = Ended(r, "raised")

\* The in-memory User of request r becomes u.
With(r, u) == [r EXCEPT !.user = u]

\* user.save() raised for the in-memory User u of request r.
Failed(r, u) ==
    [r EXCEPT !.user = u,
              !.fault = IF full_clean(r.op.uid, u) THEN "database" ELSE "validation"]

\* ------------------------------------------------------------- plan change
TargetPlans == {PLAN_BASIC, PLAN_PRO, PLAN_NONE}

\* get_stripe as it would be if it returned the module whatever the settings.
get_stripe_unchecked == TRUE

\* stripe_utils.py: get_stripe returns the module; FALSE when it raises
\* ValueError because STRIPE_SECRET_KEY is not set.
get_stripe == settings.key

\* The except clause around a mutator's remote call, if every one only logged.
swallows_delete_and_modify(call) == call \in {"delete", "modify"}

\* The except clause around a mutator's remote call: TRUE when it only logs
\* the exception and goes on (the Canceller), FALSE when it raises again.
swallows(call) == call = "delete"

\* subscription_service.py: handle_subscription_update up to its first call of
\* a collaborator.  request.user was read from the database for this request.
HsuBegin(w, uid, plan) ==
    LET r == [Idle EXCEPT !.op = [NoOp EXCEPT !.kind = "plan", !.uid = uid, !.plan = plan],
                          !.pre = db[uid],
                          !.user = db[uid]]
    IN
    /\ pc[w] = "idle"
    /\ requests < MaxRequests
    /\ requests' = requests + 1
    /\ IF ~get_stripe
       THEN Raise(w, r)
       ELSE IF plan = PLAN_NONE /\ ~Truthy(r.user.stripe_subscription_id)
       THEN Continue(w, "reset", r, {})
       ELSE Continue(w, "validate", r, {})
    /\ UNCHANGED <<settings, customers, subscriptions, credited, invoice, deleted>>

\* The plans a request body may name: the three choices, and one that is none
\* of them.
RequestedPlans == TargetPlans \cup {"gold"}

\* SubscriptionUpdateSerializer, if its field accepted any string.
is_valid_any(plan) == TRUE

\* serializers.py: SubscriptionUpdateSerializer.is_valid for the plan field.
is_valid(plan) == plan \in {PLAN_BASIC, PLAN_PRO, PLAN_NONE}

\* subscription_views.py: _update_subscription_view.  It answers 400 when the
\* serializer refuses the plan, and 500 without calling the service when the
\* configuration has errors.
update_subscription_view(w, uid, plan) ==
    LET refused == [Idle EXCEPT !.op.kind = "view", !.op.uid = uid, !.op.plan = plan]
    IN
    IF is_valid(plan) /\ validate_stripe_config
    THEN HsuBegin(w, uid, plan)
    ELSE /\ pc[w] = "idle"
         /\ requests < MaxRequests
         /\ requests' = requests + 1
         /\ Return(w, refused, {}, IF ~is_valid(plan) THEN "400" ELSE "500")
         /\ UNCHANGED <<settings, customers, subscriptions, credited, invoice, deleted>>

\* The branches of handle_subscription_update, if a cancellation always went
\* to the Canceller and another plan always to the Creator.
dispatch_ignores_subscription(plan, subscription) ==
    IF plan = PLAN_NONE THEN "cancel" ELSE "create"

\* subscription_service.py: the collaborator handle_subscription_update goes to
\* for the target plan, given whether the Validator returned a subscription.
dispatch(plan, subscription) ==
    IF plan = PLAN_NONE
    THEN (IF subscription THEN "cancel" ELSE "reset")
    ELSE (IF subscription THEN "update" ELSE "create")

\* The Validator's first test, if it never returned early.
has_reference_always(u) == TRUE

\* subscription_validator.py: the account has a subscription id to look up.
has_reference(u) == Truthy(u.stripe_subscription_id)

\* The Validator's first except clause, if it caught every exception.
every_gateway_error(result) == result \in {"not_found", "error"}

\* subscription_validator.py: the exception of retrieve is the not-found class
\* (stripe.error.InvalidRequestError).
InvalidRequestError(result) == result = "not_found"

\* subscription_validator.py: get_or_validate_subscription, and the branch
\* handle_subscription_update takes on its result.
get_or_validate_subscription(w) ==
    LET r == req[w]
        uid == r.op.uid
        asked(outcome) == Called(r, "retrieve", Said(outcome, r.user.stripe_subscription_id))
        cleared == [r.user EXCEPT !.stripe_subscription_id = None]
        absent == dispatch(r.op.plan, FALSE)
        found == dispatch(r.op.plan, TRUE)
    IN
    /\ pc[w] = "validate"
    /\ IF ~has_reference(r.user)
       THEN Continue(w, absent, r, tx[w])
       ELSE \E outcome \in GatewayOutcomes, ok \in BOOLEAN :
              IF asked(outcome).remote = "ok"
              THEN ok /\ Continue(w, found, asked(outcome), tx[w])
              ELSE IF ~InvalidRequestError(asked(outcome).remote)
              THEN ok /\ Raise(w, asked(outcome))
              ELSE /\ ~save_blocked(w, uid, cleared)
                   /\ IF save_succeeds(uid, cleared, ok)
                      THEN Continue(w, absent,
                                    [With(asked(outcome), cleared) EXCEPT !.cleared = TRUE],
                                    {cleared})
                      ELSE Raise(w, Failed(asked(outcome), cleared))
    /\ UNCHANGED <<settings, customers, subscriptions, requests, credited, invoice, deleted>>

\* The local-only reset, if it assigned the basic plan.
reset_to_basic(u) ==
    [u EXCEPT !.subscription_status = SUBSCRIPTION_STATUS_INACTIVE,
              !.current_plan = PLAN_BASIC]

\* subscription_service.py: what the local-only reset assigns to the User.
reset(u) ==
    [u EXCEPT !.subscription_status = SUBSCRIPTION_STATUS_INACTIVE,
              !.current_plan = PLAN_NONE]

\* subscription_service.py: the local-only reset of the cancel branch.
local_reset(w) ==
    LET r == req[w]
        uid == r.op.uid
        u == reset(r.user)
    IN
    /\ pc[w] = "reset"
    /\ ~save_blocked(w, uid, u)
    /\ \E ok \in BOOLEAN :
         IF save_succeeds(uid, u, ok)
         THEN Return(w, With(r, u), {u}, "ok")
         ELSE Raise(w, Failed(r, u))
    /\ UNCHANGED <<settings, customers, subscriptions, requests, credited, invoice, deleted>>

\* The Canceller's assignments, if the subscription id were left in place.
cancelled_keeps_reference(u) ==
    [u EXCEPT !.subscription_status = SUBSCRIPTION_STATUS_INACTIVE,
              !.current_plan = PLAN_NONE]

\* subscription_canceller.py: what cancel_subscription assigns to the User.
cancelled(u) ==
    [u EXCEPT !.subscription_status = SUBSCRIPTION_STATUS_INACTIVE,
              !.current_plan = PLAN_NONE,
              !.stripe_subscription_id = None]

\* subscription_canceller.py: cancel_subscription.  Whatever the delete raises
\* is logged and dropped.
cancel_subscription(w) ==
    LET sid == req[w].user.stripe_subscription_id
        r(outcome) == Called(req[w], "delete", Said(outcome, sid))
        uid == req[w].op.uid
        u == cancelled(req[w].user)
    IN
    /\ pc[w] = "cancel"
    /\ \E outcome \in GatewayOutcomes, ok \in BOOLEAN :
         /\ subscriptions' =
              IF r(outcome).remote = "ok"
              THEN [subscriptions EXCEPT ![sid.n].live = FALSE]
              ELSE subscriptions
         /\ IF r(outcome).remote # "ok" /\ ~swallows("delete")
            THEN ok /\ Raise(w, r(outcome))
            ELSE /\ ~save_blocked(w, uid, u)
                 /\ IF save_succeeds(uid, u, ok)
                    THEN Return(w, With(r(outcome), u), {u}, "ok")
                    ELSE Raise(w, Failed(r(outcome), u))
    /\ UNCHANGED <<settings, customers, requests, credited, invoice, deleted>>

\* subscription_updater.py: what update_subscription_plan assigns to the User.
updated(u, plan) == [u EXCEPT !.current_plan = plan]

\* subscription_updater.py: update_subscription_plan.
update_subscription_plan(w) ==
    LET r == req[w]
        uid == r.op.uid
        sid == r.user.stripe_subscription_id
        price_id == get_plan_price_ids(r.op.plan)
        asked(outcome) == Called(r, "modify", Said(outcome, sid))
        u == updated(r.user, r.op.plan)
    IN
    /\ pc[w] = "update"
    /\ IF price_id = ""
       THEN /\ Raise(w, r)
            /\ UNCHANGED subscriptions
       ELSE \E outcome \in GatewayOutcomes, ok \in BOOLEAN :
              /\ subscriptions' =
                   IF asked(outcome).remote = "ok"
                   THEN [subscriptions EXCEPT ![sid.n].plan = r.op.plan]
                   ELSE subscriptions
              /\ IF asked(outcome).remote # "ok" /\ ~swallows("modify")
                 THEN ok /\ Raise(w, asked(outcome))
                 ELSE /\ ~save_blocked(w, uid, u)
                      /\ IF save_succeeds(uid, u, ok)
                         THEN Return(w, With(asked(outcome), u), {u}, "ok")
                         ELSE Raise(w, Failed(asked(outcome), u))
    /\ UNCHANGED <<settings, customers, requests, credited, invoice, deleted>>

\* The Creator's first test, if it created a customer for every account.
needs_customer_always(u) == TRUE

\* subscription_creator.py: the account has no customer id yet.
needs_customer(u) == ~Truthy(u.stripe_customer_id)

\* The Creator's assignments, if the status were set to active whatever the
\* status of the new subscription.
created_always_active(u, plan, sid, st) ==
    [u EXCEPT !.stripe_subscription_id = sid,
              !.current_plan = plan,
              !.subscription_status = SUBSCRIPTION_STATUS_ACTIVE]

\* subscription_creator.py: what create_subscription assigns to the User once
\* the subscription sid exists with status st.
created(u, plan, sid, st) ==
    [u EXCEPT !.stripe_subscription_id = sid,
              !.current_plan = plan,
              !.subscription_status =
                  IF st \in ACTIVE_STRIPE_STATUSES
                  THEN SUBSCRIPTION_STATUS_ACTIVE
                  ELSE SUBSCRIPTION_STATUS_INACTIVE]

\* subscription_creator.py: create_subscription, first part: the account has
\* no customer reference yet.
create_customer(w) ==
    LET r(outcome) == Called(req[w], "customer", IF outcome = "error" THEN "error" ELSE "ok")
        uid == req[w].op.uid
        u == [req[w].user EXCEPT !.stripe_customer_id = CusId(Len(customers) + 1)]
    IN
    /\ pc[w] = "create"
    /\ needs_customer(req[w].user)
    /\ \E outcome \in GatewayOutcomes, ok \in BOOLEAN :
         IF outcome = "error"
         THEN /\ ok
              /\ Raise(w, r(outcome))
              /\ UNCHANGED customers
         ELSE /\ customers' = Append(customers, uid)
              /\ ~save_blocked(w, uid, u)
              /\ IF save_succeeds(uid, u, ok)
                 THEN Continue(w, "create", With(r(outcome), u), {u})
                 ELSE Raise(w, Failed(r(outcome), u))
    /\ UNCHANGED <<settings, subscriptions, requests, credited, invoice, deleted>>

\* subscription_creator.py: create_subscription, from the price lookup on.
create_subscription(w) ==
    LET r == req[w]
        uid == r.op.uid
        price_id == get_plan_price_ids(r.op.plan)
        asked(outcome) == Called(r, "subscription", IF outcome = "error" THEN "error" ELSE "ok")
        new(st) == created(r.user, r.op.plan, SubId(Len(subscriptions) + 1), st)
    IN
    /\ pc[w] = "create"
    /\ ~needs_customer(r.user)
    /\ IF price_id = ""
       THEN /\ Raise(w, r)
            /\ UNCHANGED subscriptions
       ELSE \E outcome \in GatewayOutcomes, ok \in BOOLEAN, st \in RemoteStatuses :
              IF outcome = "error"
              THEN /\ ok
                   /\ st = "active"
                   /\ Raise(w, asked(outcome))
                   /\ UNCHANGED subscriptions
              ELSE /\ subscriptions' =
                        Append(subscriptions,
                               [customer |-> r.user.stripe_customer_id,
                                plan |-> r.op.plan, status |-> st, live |-> TRUE])
                   /\ ~save_blocked(w, uid, new(st))
                   /\ IF save_succeeds(uid, new(st), ok)
                      THEN Return(w, With(asked(outcome), new(st)), {new(st)}, "ok")
                      ELSE Raise(w, Failed(asked(outcome), new(st)))
    /\ UNCHANGED <<settings, customers, requests, credited, invoice, deleted>>

\* ------------------------------------------------------------- webhooks
\* The event payloads, by type, with the fields the handlers read.
EventCustomers == {None} \cup {CusId(n) : n \in 1..MaxEventIds}
\* The provider sends events about subscriptions it has or has had.
EventSubs == {SubId(n) : n \in 1..MaxEventIds} \cap {SubId(n) : n \in 1..Len(subscriptions)}
EventStatuses == {"active", "trialing", "past_due"}

Event(type, c, s, st, pr, a) ==
    [NoOp EXCEPT !.kind = "webhook", !.type = type, !.customer = c, !.sub = s,
                 !.status = st, !.price = pr, !.amount = a]

\* The events the provider may send about customer c.
EventsFor(c) ==
    {Event("customer.subscription.created", c, x[1], "", x[2], 0) :
        x \in EventSubs \X EventPrices}
    \cup {Event("customer.subscription.updated", c, x[1], x[2], x[3], 0) :
        x \in EventSubs \X EventStatuses \X EventPrices}
    \cup {Event("customer.subscription.deleted", c, x, "", "", 0) : x \in EventSubs}
    \cup {Event("invoice.paid", c, None, "", "", x) : x \in Amounts}
    \cup {Event(x, c, None, "", "", 0) : x \in {"invoice.payment_failed", "charge.succeeded"}}

\* Of an event that matches no account, only the type and the customer
\* reference are ever read.
HeadersFor(c) == {Event(t, c, None, "", "", 0) : t \in EventTypes \cup {"charge.succeeded"}}

\* stripe.Webhook.construct_event: the event, or ValueError, or
\* SignatureVerificationError.
Verdicts == {"valid", "bad_payload", "bad_signature"}

\* get_user_by_stripe_customer_id, if it queried for an empty reference too.
get_user_by_any_customer_id(customer_id) ==
    {u \in Users : db[u].stripe_customer_id = customer_id}

\* user_service.py: get_user_by_stripe_customer_id, as the set of rows found.
get_user_by_stripe_customer_id(customer_id) ==
    IF ~Truthy(customer_id) THEN {}
    ELSE {u \in Users : db[u].stripe_customer_id = customer_id}

\* webhook_handlers.py: the plan a handler infers from the event's first price.
plan_from_price(u, price) ==
    IF price # "" /\ price = get_plan_price_ids(PLAN_BASIC) THEN PLAN_BASIC
    ELSE IF price # "" /\ price = get_plan_price_ids(PLAN_PRO) THEN PLAN_PRO
    ELSE u.current_plan

\* handle_subscription_created, if it also counted a first payment.
handle_subscription_created_counts_payment(u, ev) ==
    [u EXCEPT !.stripe_subscription_id = ev.sub,
              !.subscription_status = "active",
              !.current_plan = plan_from_price(u, ev.price),
              !.total_amount_paid = @ + 1]

\* webhook_handlers.py: what each handler assigns to the User it found.
handle_subscription_created(u, ev) ==
    [u EXCEPT !.stripe_subscription_id = ev.sub,
              !.subscription_status = "active",
              !.current_plan = plan_from_price(u, ev.price)]

\* handle_subscription_updated, if it left the status alone.
handle_subscription_updated_keeps_status(u, ev) ==
    [u EXCEPT !.stripe_subscription_id = ev.sub,
              !.current_plan = plan_from_price(u, ev.price)]

handle_subscription_updated(u, ev) ==
    [u EXCEPT !.stripe_subscription_id = ev.sub,
              !.subscription_status =
                  IF ev.status \in {"active", "trialing"} THEN "active" ELSE "inactive",
              !.current_plan = plan_from_price(u, ev.price)]

\* handle_subscription_deleted, if it left the subscription id in place.
handle_subscription_deleted_keeps_reference(u, ev) ==
    [u EXCEPT !.subscription_status = "inactive",
              !.current_plan = "none"]

handle_subscription_deleted(u, ev) ==
    [u EXCEPT !.subscription_status = "inactive",
              !.current_plan = "none",
              !.stripe_subscription_id = None]

handle_invoice_paid(u, ev) ==
    [u EXCEPT !.total_amount_paid = @ + ev.amount,
              !.subscription_status = "active"]

\* handle_invoice_payment_failed, if it marked the account inactive.
handle_invoice_payment_failed_marks_inactive(u, ev) ==
    [u EXCEPT !.subscription_status = "inactive"]

handle_invoice_payment_failed(u, ev) == u

handler(u, ev) ==
    CASE ev.type = "customer.subscription.created" -> handle_subscription_created(u, ev)
      [] ev.type = "customer.subscription.updated" -> handle_subscription_updated(u, ev)
      [] ev.type = "customer.subscription.deleted" -> handle_subscription_deleted(u, ev)
      [] ev.type = "invoice.paid" -> handle_invoice_paid(u, ev)
      [] OTHER -> handle_invoice_payment_failed(u, ev)

\* webhook_handlers.py: whether the handler calls user.save().
handler_saves(ev) == ev.type # "invoice.payment_failed"

\* webhook_handlers.py, the handlers' except clauses: what stripe_webhook
\* answers when user.save() raised.  The first clause, except Exception, logs
\* and returns, so the view answers success; the second clause, which
\* re-raises, is never reached.
response_after_failed_save == "success"

\* stripe_webhook, if it took the payload as the event without verifying it.
construct_event_unverified(verdict) == TRUE

\* webhook_views.py: stripe.Webhook.construct_event returns the event; FALSE
\* when it raises ValueError or SignatureVerificationError.
construct_event(verdict) == verdict = "valid"

\* The delivery of ev for the account uid comes right after a delivery of the
\* same event has ended, its save, if any, carried out by the database.
Repeats(ev, uid) ==
    /\ last.ret = "success"
    /\ last.fault # "database"
    /\ [last.op EXCEPT !.again = FALSE, !.tracked = FALSE]
         = [ev EXCEPT !.uid = uid, !.verdict = "valid", !.again = FALSE, !.tracked = FALSE]

\* webhook_views.py: stripe_webhook up to the dispatch, and the handler up to
\* the row it locks.  A payload that is rejected is never parsed, and a handler
\* that finds no account has used the customer reference alone.
Deliver(w, ev, verdict) ==
    LET found == get_user_by_stripe_customer_id(ev.customer)
        unread == [Idle EXCEPT !.op.kind = "webhook"]
        rejected == [unread EXCEPT !.op.verdict = verdict]
        unmatched == [unread EXCEPT !.op.type = ev.type, !.op.customer = ev.customer,
                                    !.op.verdict = verdict]
    IN
    /\ pc[w] = "idle"
    /\ requests < MaxRequests
    /\ requests' = requests + 1
    /\ IF ~settings.key \/ ~settings.secret
       THEN Return(w, unread, {}, "500")
       ELSE IF ~construct_event(verdict)
       THEN Return(w, rejected, {}, "400")
       ELSE IF ev.type \notin EventTypes \/ found = {}
       THEN Return(w, unmatched, {}, "success")
       ELSE \E uid \in found :
            /\ LockFree(w, uid)
            /\ pc' = [pc EXCEPT ![w] = "handler"]
            /\ req' = [req EXCEPT ![w] = [Idle EXCEPT !.op = [ev EXCEPT !.uid = uid,
                                                                       !.verdict = verdict,
                                                                       !.again = Repeats(ev, uid)],
                                                       !.pre = db[uid],
                                                       !.user = db[uid]]]
            /\ rowlock' = [rowlock EXCEPT ![uid] = w]
            /\ last' = Nothing
            /\ UNCHANGED <<db, tx>>
    /\ UNCHANGED <<settings, customers, subscriptions, credited, deleted>>

\* One delivery of a webhook event.
WhDeliver(w, ev, verdict) ==
    /\ Deliver(w, ev, verdict)
    /\ UNCHANGED invoice

\* The deliveries that can arrive: a payload that fails verification, or an
\* event about some customer.
Rejected == {<<Event("", None, None, "", "", 0), v>> : v \in Verdicts \ {"valid"}}

Incoming ==
    Rejected \cup
    UNION {{<<ev, "valid">> :
               ev \in IF get_user_by_stripe_customer_id(c) = {}
                      THEN HeadersFor(c) ELSE EventsFor(c)} :
           c \in EventCustomers}

\* A delivery of the tracked invoice.paid event: its first delivery, or the
\* provider delivering it again (at-least-once delivery).
WhDeliverInvoice(w, ev) ==
    /\ ev.type = "invoice.paid"
    /\ invoice.deliveries = 0
         \/ (ev.customer = invoice.customer /\ ev.amount = invoice.amount)
    /\ Deliver(w, [ev EXCEPT !.tracked = TRUE], "valid")
    /\ invoice' = [invoice EXCEPT !.customer = ev.customer, !.amount = ev.amount,
                                  !.deliveries = @ + 1]

\* webhook_handlers.py: a handler from the row it locked to the end of its
\* transaction, and stripe_webhook's response.
WhApply(w) ==
    LET r == req[w]
        uid == r.op.uid
        u == handler(r.user, r.op)
    IN
    /\ pc[w] = "handler"
    /\ \E ok \in BOOLEAN :
         IF ~handler_saves(r.op)
         THEN /\ ok
              /\ Return(w, With(r, u), {}, "success")
              /\ UNCHANGED <<credited, invoice, deleted>>
         ELSE IF save_succeeds(uid, u, ok)
         THEN /\ Return(w, With(r, u), {u}, "success")
              /\ credited' = [credited EXCEPT ![uid] = @ + r.op.amount]
              /\ invoice' = IF r.op.tracked
                            THEN [invoice EXCEPT !.applied = @ + 1,
                                                 !.credited = @ + r.op.amount]
                            ELSE invoice
              /\ deleted' = IF r.op.type = "customer.subscription.deleted"
                            THEN [deleted EXCEPT ![uid] = @ \cup {r.op.sub}]
                            ELSE deleted
         ELSE /\ Return(w, Failed(r, u), {}, response_after_failed_save)
              /\ UNCHANGED <<credited, invoice, deleted>>
    /\ UNCHANGED <<settings, customers, subscriptions, requests>>

\* ------------------------------------------------------------- the system
\* A request goes to the first free worker.
Free(w) == \A o \in Workers : (pc[o] = "idle" /\ o # w) => w = "w1"

\* A plan change arrives at the view.
UpdateSubscription ==
    \E w \in Workers :
        Free(w) /\ \E uid \in Users, plan \in RequestedPlans : update_subscription_view(w, uid, plan)

\* The service is called directly, as by a caller other than the view.
ServiceCall ==
    \E w \in Workers :
        Free(w) /\ \E uid \in Users, plan \in TargetPlans : HsuBegin(w, uid, plan)

PlanChange ==
    \E w \in Workers :
        \/ get_or_validate_subscription(w)
        \/ local_reset(w)
        \/ cancel_subscription(w)
        \/ update_subscription_plan(w)
        \/ create_customer(w)
        \/ create_subscription(w)

Webhook ==
    \E w \in Workers :
        \/ Free(w) /\ pc[w] = "idle" /\ requests < MaxRequests
             /\ \E d \in Incoming : WhDeliver(w, d[1], d[2])
        \/ WhApply(w)

Next == UpdateSubscription \/ PlanChange \/ Webhook

Spec == Init /\ [][Next]_vars

NextService == ServiceCall \/ PlanChange \/ Webhook

SpecService == Init /\ [][NextService]_vars

\* The provider delivers one invoice.paid event, and may deliver it again.
Redelivery ==
    \E w \in Workers :
        /\ Free(w)
        /\ pc[w] = "idle"
        /\ requests < MaxRequests
        /\ \E c \in EventCustomers, a \in Amounts :
             WhDeliverInvoice(w, Event("invoice.paid", c, None, "", "", a))

NextRedelivery == Next \/ Redelivery

SpecRedelivery == Init /\ [][NextRedelivery]_vars

\* Plan changes alone: no webhook event arrives.
NextPlanChanges == UpdateSubscription \/ PlanChange

SpecPlanChanges == Init /\ [][NextPlanChanges]_vars

\* ------------------------------------------------------------------ claims
\* The worker w took a step.
Moved(w) == pc'[w] # pc[w] \/ req'[w] # req[w]

\* A webhook handler that found its account has just ended.
Handled(type) ==
    /\ last.op.kind = "webhook"
    /\ last.op.type = type
    /\ last.op.uid \in Users

\* C1: in every persisted state, an account whose subscription_status is
\* active has a current_plan other than none.
C1_ActiveHasPlan ==
    \A u \in Users :
        db[u].subscription_status = SUBSCRIPTION_STATUS_ACTIVE
            => db[u].current_plan # PLAN_NONE

\* A handler set an account without a plan to active, and its save was refused.
C1_Witness ==
    /\ last.op.kind = "webhook"
    /\ last.op.uid \in Users
    /\ last.user.subscription_status = SUBSCRIPTION_STATUS_ACTIVE
    /\ last.user.current_plan = PLAN_NONE
    /\ last.fault = "validation"
    /\ db[last.op.uid].subscription_status = SUBSCRIPTION_STATUS_INACTIVE

\* C2: after one delivery of an invoice paid event of amount A >= 0 to a found
\* account of total T, whatever its status and plan, and with the database
\* carrying out every statement, the persisted total is T + A and the
\* persisted status is active.
C2_InvoicePaidCredits ==
    (Handled("invoice.paid") /\ last.op.amount >= 0 /\ last.fault # "database")
        => /\ db[last.op.uid].total_amount_paid
                = last.pre.total_amount_paid + last.op.amount
           /\ db[last.op.uid].subscription_status = SUBSCRIPTION_STATUS_ACTIVE

\* C3: whenever an invoice paid handler and a plan change ran interleaved on
\* one account and both have ended, no increment is lost: the persisted total
\* is the sum of the amounts of the invoice paid events that were committed.
C3_IncrementNotLost ==
    (\A w \in Workers : pc[w] = "idle")
        => \A u \in Users : db[u].total_amount_paid = credited[u]

\* C4: when the same invoice paid event has been applied twice, the total has
\* been incremented by its amount exactly once.
C4_AppliedTwiceCreditedOnce ==
    invoice.applied >= 2 => invoice.credited = invoice.amount

\* C5: total_amount_paid is never negative in a persisted state, whatever the
\* amounts of the events, negative ones included, and however the operations
\* interleave.
C5_TotalNonNegative ==
    \A u \in Users : db[u].total_amount_paid >= 0

\* An invoice paid event with an amount that would take the total below zero
\* was handled.
C5_Witness ==
    /\ Handled("invoice.paid")
    /\ last.pre.total_amount_paid + last.op.amount < 0
    /\ db[last.op.uid].total_amount_paid >= 0

\* C6: the persisted total_amount_paid of an account never decreases, and no
\* step other than the end of the invoice paid handler for that account
\* changes it.
C6_TotalMonotone ==
    [][\A u \in Users :
          /\ db'[u].total_amount_paid >= db[u].total_amount_paid
          /\ db'[u].total_amount_paid # db[u].total_amount_paid
                => (last'.op.type = "invoice.paid" /\ last'.op.uid = u)]_vars

\* C7: when a handler has found its account and its save then raises, the
\* response to the provider is not the success response.
C7_FailureIsReported ==
    (last.op.kind = "webhook" /\ last.op.uid \in Users /\ last.fault # "")
        => last.ret # "success"

\* The target state of the plan change r is in its User.
Transitioned(r) ==
    IF r.op.plan = PLAN_NONE
    THEN /\ r.user.subscription_status = SUBSCRIPTION_STATUS_INACTIVE
         /\ r.user.current_plan = PLAN_NONE
         /\ r.user.stripe_subscription_id = None
    ELSE r.user.current_plan = r.op.plan

\* C8: handle_subscription_update is all-or-nothing: no step before its end
\* changes a persisted row; when it returns normally the row is the User with
\* the whole transition; when it raises the rows are what they were.
C8_AllOrNothing ==
    [][/\ \A w \in Workers :
             (Moved(w) /\ pc'[w] \notin {"idle", "handler"}) => db' = db
       /\ last'.op.kind = "plan"
             => IF last'.ret = "ok"
                THEN /\ db'[last'.op.uid] = last'.user
                     /\ Transitioned(last')
                ELSE /\ last'.ret = "raised"
                     /\ db' = db]_vars

\* A plan change raised after a customer was created and saved on the account,
\* and the row has no customer reference.
C8_Witness ==
    /\ last.op.kind = "plan"
    /\ last.ret = "raised"
    /\ last.calls.customer = 1
    /\ Truthy(last.user.stripe_customer_id)
    /\ ~Truthy(db[last.op.uid].stripe_customer_id)

\* C9, as stated: when the Validator has cleared a stale subscription reference
\* and the caller then fails and rolls back, the persisted reference is cleared.
C9_ClearSurvivesRollback ==
    (last.op.kind = "plan" /\ last.cleared /\ last.ret = "raised")
        => db[last.op.uid].stripe_subscription_id = None

\* C9, amended: the Validator's clear is written in the caller's transaction.
\* The step that clears changes no persisted row; the clear is persisted when
\* handle_subscription_update returns normally, and when the caller raises the
\* rows stay what they were.
C9_ClearCommitsWithCaller ==
    [][/\ \A w \in Workers :
             (req'[w].cleared /\ ~req[w].cleared)
                 => /\ db' = db
                    /\ tx'[w] = {req'[w].user}
                    /\ req'[w].user.stripe_subscription_id = None
       /\ last'.cleared
             => IF last'.ret = "ok"
                THEN db'[last'.op.uid] = last'.user
                ELSE db' = db]_vars

\* The Validator cleared the reference, the Creator then failed, and the row
\* still holds the stale reference.
C9_Witness ==
    /\ last.op.kind = "plan"
    /\ last.cleared
    /\ last.ret = "raised"
    /\ last.calls.subscription = 1
    /\ last.pre.stripe_subscription_id # None
    /\ db[last.op.uid].stripe_subscription_id = last.pre.stripe_subscription_id

\* C10: every step of create_subscription for a plan whose price is not
\* configured raises, creates no remote customer and no remote subscription,
\* and changes no persisted row.
C10_NoPriceNoSideEffects ==
    [][\A w \in Workers :
          (/\ pc[w] = "create"
           /\ get_plan_price_ids(req[w].op.plan) = ""
           /\ Moved(w))
              => /\ last'.ret = "raised"
                 /\ customers' = customers
                 /\ subscriptions' = subscriptions
                 /\ db' = db]_vars

\* A plan change has just ended.
PlanEnded == last.op.kind = "plan"

\* The request of worker w after a step it took: what it left behind when it
\* ended in that step, the request in flight otherwise.
After(w) == IF pc'[w] = "idle" THEN last' ELSE req'[w]

\* C11: no plan-change operation reports success after its remote call
\* (retrieve, customer create, subscription create, modify, delete) failed
\* transiently: it ends by raising.
C11_TransientFailureSurfaces ==
    (PlanEnded /\ last.remote = "error") => last.ret = "raised"

\* C12: when the remote delete of cancel_subscription removed the subscription
\* or found it already absent, and the database carries out the save, the call
\* returns normally and the account is persisted inactive, with plan none and
\* no subscription reference.
C12_CancelEndsCancelled ==
    (PlanEnded /\ last.calls.delete = 1 /\ last.remote \in {"ok", "not_found"}
        /\ last.fault # "database")
        => /\ last.ret = "ok"
           /\ db[last.op.uid].subscription_status = SUBSCRIPTION_STATUS_INACTIVE
           /\ db[last.op.uid].current_plan = PLAN_NONE
           /\ db[last.op.uid].stripe_subscription_id = None

\* The delete found the subscription already absent and the cancel succeeded.
C12_Witness ==
    /\ PlanEnded
    /\ last.calls.delete = 1
    /\ last.remote = "not_found"
    /\ last.ret = "ok"
    /\ last.pre.stripe_subscription_id # None
    /\ db[last.op.uid].stripe_subscription_id = None

\* C13: when create_subscription succeeds, the persisted account references
\* the new remote subscription, has the target plan, and is active exactly
\* when that subscription's status is active or trialing, inactive otherwise.
C13_CreatedState ==
    (PlanEnded /\ last.calls.subscription = 1 /\ last.ret = "ok")
        => LET row == db[last.op.uid]
               new == subscriptions[Len(subscriptions)]
           IN /\ row.stripe_subscription_id = SubId(Len(subscriptions))
              /\ row.current_plan = last.op.plan
              /\ row.subscription_status =
                    IF new.status \in {"active", "trialing"}
                    THEN SUBSCRIPTION_STATUS_ACTIVE
                    ELSE SUBSCRIPTION_STATUS_INACTIVE

\* create_subscription succeeded with a subscription that is not yet active.
C13_Witness ==
    /\ PlanEnded
    /\ last.calls.subscription = 1
    /\ last.ret = "ok"
    /\ subscriptions[Len(subscriptions)].status = "incomplete"
    /\ db[last.op.uid].subscription_status = SUBSCRIPTION_STATUS_INACTIVE
    /\ db[last.op.uid].current_plan = last.op.plan

\* C14: create_subscription creates a remote customer only for an account it
\* was given without a customer reference, and before any subscription call;
\* a remote subscription is created only once the account has a customer
\* reference, for that customer, the reference of a customer created in this
\* call having been saved first; and when the customer creation fails no
\* subscription is created and the operation raises.
C14_CustomerBeforeSubscription ==
    [][\A w \in Workers :
          Moved(w) =>
            /\ customers' # customers
                  => /\ ~Truthy(req[w].user.stripe_customer_id)
                     /\ req[w].calls.subscription = 0
            /\ subscriptions' # subscriptions /\ pc[w] = "create"
                  => /\ Truthy(req[w].user.stripe_customer_id)
                     /\ subscriptions'[Len(subscriptions')].customer
                           = req[w].user.stripe_customer_id
                     /\ req[w].calls.customer = 1 => tx[w] = {req[w].user}
            /\ (pc[w] = "create" /\ After(w).calls.subscription = 0
                   /\ After(w).remote = "error")
                  => /\ last'.ret = "raised"
                     /\ subscriptions' = subscriptions]_vars

\* A customer and then a subscription were created in one call that succeeded.
C14_Witness ==
    /\ PlanEnded
    /\ last.ret = "ok"
    /\ last.calls.customer = 1
    /\ last.calls.subscription = 1
    /\ ~Truthy(last.pre.stripe_customer_id)
    /\ db[last.op.uid].stripe_customer_id
          = subscriptions[Len(subscriptions)].customer

\* C15: when the remote subscription creation succeeded and the local save
\* then failed, the operation raises, no persisted row is changed, and the new
\* remote subscription exists while no account references it.
C15_SaveFailsAfterRemoteCreate ==
    [][(last'.op.kind = "plan" /\ last'.calls.subscription = 1
           /\ last'.remote = "ok" /\ last'.fault # "")
          => /\ last'.ret = "raised"
             /\ db' = db
             /\ Len(subscriptions') = Len(subscriptions) + 1
             /\ subscriptions'[Len(subscriptions')].live
             /\ \A u \in Users :
                   db'[u].stripe_subscription_id # SubId(Len(subscriptions'))]_vars

\* The save failed after both the customer and the subscription were created.
C15_Witness ==
    /\ PlanEnded
    /\ last.calls.customer = 1
    /\ last.calls.subscription = 1
    /\ last.remote = "ok"
    /\ last.fault = "database"
    /\ last.ret = "raised"
    /\ db[last.op.uid] = last.pre
    /\ subscriptions[Len(subscriptions)].live

\* C16: when update_subscription_plan finds no configured price for the target
\* plan, or its remote modify fails, it raises and no persisted row is changed.
C16_UpdateFailureNoMutation ==
    [][\A w \in Workers :
          (/\ pc[w] = "update"
           /\ Moved(w)
           /\ get_plan_price_ids(req[w].op.plan) = "" \/ last'.remote # "ok")
              => /\ last'.ret = "raised"
                 /\ db' = db]_vars

\* The remote modify failed transiently and the row is as it was read.
C16_Witness ==
    /\ PlanEnded
    /\ last.calls.modify = 1
    /\ last.remote = "error"
    /\ last.ret = "raised"
    /\ last.op.plan # last.pre.current_plan
    /\ db[last.op.uid] = last.pre

\* C17: when the remote modify succeeded and the save was carried out, the
\* step of update_subscription_plan sets the persisted current_plan to the
\* target plan and leaves the persisted subscription_status, subscription
\* reference, customer reference and total_amount_paid as they were.
C17_UpdateFrame ==
    [][\A w \in Workers :
          (pc[w] = "update" /\ Moved(w) /\ last'.ret = "ok")
              => LET uid == req[w].op.uid
                 IN /\ db'[uid].current_plan = req[w].op.plan
                    /\ db'[uid].subscription_status = db[uid].subscription_status
                    /\ db'[uid].stripe_subscription_id = db[uid].stripe_subscription_id
                    /\ db'[uid].stripe_customer_id = db[uid].stripe_customer_id
                    /\ db'[uid].total_amount_paid = db[uid].total_amount_paid]_vars

\* C18: get_or_validate_subscription on an account without a subscription
\* reference returns absent, makes no gateway call and changes neither the
\* account nor any persisted row.
C18_EmptyReferenceNoCall ==
    [][\A w \in Workers :
          (pc[w] = "validate" /\ ~Truthy(req[w].user.stripe_subscription_id) /\ Moved(w))
              => /\ pc'[w] \in {"reset", "create"}
                 /\ req'[w] = req[w]
                 /\ tx' = tx
                 /\ db' = db
                 /\ customers' = customers
                 /\ subscriptions' = subscriptions]_vars

\* The Validator returned absent for an account without a reference.
C18_Witness ==
    \E w \in Workers :
        /\ pc[w] = "create"
        /\ req[w].op.kind = "plan"
        /\ req[w].pre.stripe_subscription_id = None
        /\ req[w].calls = NoCalls

\* C19: when the retrieve fails transiently the Validator raises, and neither
\* the account's subscription reference nor any persisted row is changed; the
\* Validator clears the reference only when the gateway said not found.
C19_OnlyNotFoundClears ==
    [][\A w \in Workers :
          (pc[w] = "validate" /\ Moved(w))
              => /\ After(w).remote = "error"
                    => /\ last'.ret = "raised"
                       /\ After(w).user.stripe_subscription_id
                             = req[w].user.stripe_subscription_id
                       /\ db' = db
                 /\ After(w).user.stripe_subscription_id
                       # req[w].user.stripe_subscription_id
                    => After(w).remote = "not_found"]_vars

\* The retrieve failed transiently, the call raised and the reference is kept.
C19_Witness ==
    /\ PlanEnded
    /\ last.calls.retrieve = 1
    /\ last.remote = "error"
    /\ last.ret = "raised"
    /\ Truthy(last.user.stripe_subscription_id)
    /\ db[last.op.uid].stripe_subscription_id = last.pre.stripe_subscription_id

\* C20: without gateway credentials handle_subscription_update raises for every
\* target plan before any gateway call and before any account field or
\* persisted row is changed, and no plan change is ever in flight.
C20_FailFastWithoutCredentials ==
    [][~settings.key
          => /\ \A w \in Workers : req'[w].op.kind # "plan"
             /\ last'.op.kind = "plan"
                   => /\ last'.ret = "raised"
                      /\ last'.calls = NoCalls
                      /\ last'.user = last'.pre
                      /\ db' = db
                      /\ customers' = customers
                      /\ subscriptions' = subscriptions]_vars

\* Without credentials, a cancel for an account without a subscription raised.
C20_Witness ==
    /\ PlanEnded
    /\ ~settings.key
    /\ last.op.plan = PLAN_NONE
    /\ last.pre.stripe_subscription_id = None
    /\ last.ret = "raised"

\* The account of the request that has just ended is persisted inactive, with
\* plan none and without a subscription reference.
EndsCancelled ==
    /\ db[last.op.uid].subscription_status = SUBSCRIPTION_STATUS_INACTIVE
    /\ db[last.op.uid].current_plan = PLAN_NONE
    /\ db[last.op.uid].stripe_subscription_id = None

\* The event's price is the configured price of plan.
PriceOf(ev, plan) == ev.price # "" /\ ev.price = get_plan_price_ids(plan)

\* C21: handle_subscription_update with target none on an account that has no
\* subscription reference makes no remote call and, the database carrying out
\* the save, returns with the account persisted inactive with plan none.
C21_CancelWithoutReference ==
    (PlanEnded /\ last.op.plan = PLAN_NONE /\ last.pre.stripe_subscription_id = None
        /\ last.fault # "database")
        => /\ last.calls = NoCalls
           /\ last.ret = "ok"
           /\ db[last.op.uid].subscription_status = SUBSCRIPTION_STATUS_INACTIVE
           /\ db[last.op.uid].current_plan = PLAN_NONE

\* A cancel of an account without a subscription reference returned.
C21_Witness ==
    /\ PlanEnded
    /\ last.op.plan = PLAN_NONE
    /\ last.pre.stripe_subscription_id = None
    /\ last.calls = NoCalls
    /\ last.ret = "ok"
    /\ db[last.op.uid].current_plan = PLAN_NONE

\* C22: in handle_subscription_update with target none, when the Validator
\* finds the stored reference at the gateway the Canceller runs and calls the
\* remote delete for that reference; when the gateway says not found the
\* Validator clears the reference and the local reset runs: no delete is
\* called and, the database carrying out the save, the account ends inactive,
\* with plan none and no reference.
C22_CancelDispatch ==
    [][\A w \in Workers :
          (Moved(w) /\ req[w].op.kind = "plan" /\ req[w].op.plan = PLAN_NONE)
              => /\ (pc[w] = "validate" /\ After(w).remote = "ok")
                       => pc'[w] = "cancel"
                 /\ (pc[w] = "validate" /\ After(w).remote = "not_found"
                        /\ After(w).fault # "database")
                       => /\ pc'[w] = "reset"
                          /\ req'[w].cleared
                          /\ req'[w].user.stripe_subscription_id = None
                 /\ pc[w] = "cancel"
                       => /\ After(w).calls.delete = 1
                          /\ After(w).remote = "ok"
                                => ~subscriptions'[req[w].user.stripe_subscription_id.n].live
                 /\ pc[w] = "reset"
                       => /\ After(w).calls.delete = 0
                          /\ After(w).fault # "database"
                                => /\ last'.ret = "ok"
                                   /\ db'[req[w].op.uid] = cancelled(req[w].pre)]_vars

\* The gateway said not found, the reference was cleared and the cancel ended
\* without a delete.
C22_Witness ==
    /\ PlanEnded
    /\ last.op.plan = PLAN_NONE
    /\ last.cleared
    /\ last.calls.retrieve = 1
    /\ last.calls.delete = 0
    /\ last.ret = "ok"
    /\ last.pre.stripe_subscription_id # None
    /\ EndsCancelled

\* C23: in handle_subscription_update with target basic or pro, when the
\* Validator returns a subscription the Updater runs, and no remote delete,
\* subscription create or customer create is called; when it returns absent
\* the Creator runs, and no remote modify is called.
C23_UpdateOrCreate ==
    [][\A w \in Workers :
          (Moved(w) /\ req[w].op.kind = "plan" /\ req[w].op.plan # PLAN_NONE)
              => /\ (pc[w] = "validate" /\ After(w).remote = "ok")
                       => pc'[w] = "update"
                 /\ (pc[w] = "validate" /\ pc'[w] # "idle" /\ After(w).remote # "ok")
                       => pc'[w] = "create"
                 /\ pc[w] = "update"
                       => /\ After(w).calls.delete = 0
                          /\ After(w).calls.subscription = 0
                          /\ After(w).calls.customer = 0
                          /\ customers' = customers
                          /\ Len(subscriptions') = Len(subscriptions)
                 /\ pc[w] = "create"
                       => /\ After(w).calls.modify = 0
                          /\ After(w).calls.delete = 0]_vars

\* The Updater changed the plan of an existing subscription.
C23_Witness ==
    /\ PlanEnded
    /\ last.calls.retrieve = 1
    /\ last.calls.modify = 1
    /\ last.ret = "ok"
    /\ last.op.plan # last.pre.current_plan
    /\ db[last.op.uid].current_plan = last.op.plan

\* C24: a cancel that returns for an account without a subscription reference
\* and a cancel that returns for an account whose referenced subscription is
\* gone at the gateway end in the same persisted state: inactive, plan none,
\* no reference; and a cancel of an account that is already in that state
\* leaves the row as it was read.
C24_CancelIdempotent ==
    (PlanEnded /\ last.op.plan = PLAN_NONE /\ last.ret = "ok")
        => /\ (last.pre.stripe_subscription_id = None \/ last.cleared) => EndsCancelled
           /\ last.pre = cancelled(last.pre) => db[last.op.uid] = last.pre

\* An account that had been cancelled before was cancelled again.
C24_Witness ==
    /\ PlanEnded
    /\ last.op.plan = PLAN_NONE
    /\ last.ret = "ok"
    /\ requests = 2
    /\ Truthy(last.pre.stripe_customer_id)
    /\ last.pre = cancelled(last.pre)
    /\ db[last.op.uid] = last.pre

\* C25: for an account that create_subscription left with plan basic and a
\* reference to a subscription of the gateway, whatever its status, a
\* subscription updated event with status active and the configured basic
\* price, the database carrying out the save, leaves the account active, with
\* plan basic and the event's subscription as its reference.
C25_RoundTrip ==
    (/\ Handled("customer.subscription.updated")
     /\ last.pre.current_plan = PLAN_BASIC
     /\ last.pre.stripe_subscription_id.n \in 1..Len(subscriptions)
     /\ last.op.status = "active"
     /\ PriceOf(last.op, PLAN_BASIC)
     /\ last.fault # "database")
        => /\ db[last.op.uid].subscription_status = SUBSCRIPTION_STATUS_ACTIVE
           /\ db[last.op.uid].current_plan = PLAN_BASIC
           /\ db[last.op.uid].stripe_subscription_id = last.op.sub

\* The creation returned an incomplete subscription, and the event activated
\* the account.
C25_Witness ==
    /\ Handled("customer.subscription.updated")
    /\ last.pre.current_plan = PLAN_BASIC
    /\ last.pre.subscription_status = SUBSCRIPTION_STATUS_INACTIVE
    /\ last.pre.stripe_subscription_id = last.op.sub
    /\ subscriptions[last.op.sub.n].status = "incomplete"
    /\ last.op.status = "active"
    /\ PriceOf(last.op, PLAN_BASIC)
    /\ db[last.op.uid].subscription_status = SUBSCRIPTION_STATUS_ACTIVE

\* C26: the subscription created handler, for the account it found, whatever
\* its plan, and the database carrying out the save, persists the event's
\* subscription as reference and the status active, and the plan basic or pro
\* when the event's price is the basic or pro price, the plan as it was
\* otherwise.
C26_CreatedEventApplied ==
    (Handled("customer.subscription.created") /\ last.fault # "database")
        => /\ db[last.op.uid].stripe_subscription_id = last.op.sub
           /\ db[last.op.uid].subscription_status = SUBSCRIPTION_STATUS_ACTIVE
           /\ db[last.op.uid].current_plan =
                 IF PriceOf(last.op, PLAN_BASIC) THEN PLAN_BASIC
                 ELSE IF PriceOf(last.op, PLAN_PRO) THEN PLAN_PRO
                 ELSE last.pre.current_plan

\* C27: the subscription updated handler, for the account it found and the
\* database carrying out the save, persists the event's subscription as
\* reference, the status active when the event's status is active or trialing
\* and inactive otherwise, and the plan from the event's price, the plan as it
\* was for a price that is neither the basic nor the pro price.
C27_UpdatedEventApplied ==
    (Handled("customer.subscription.updated") /\ last.fault # "database")
        => /\ db[last.op.uid].stripe_subscription_id = last.op.sub
           /\ db[last.op.uid].subscription_status =
                 IF last.op.status \in {"active", "trialing"}
                 THEN SUBSCRIPTION_STATUS_ACTIVE
                 ELSE SUBSCRIPTION_STATUS_INACTIVE
           /\ db[last.op.uid].current_plan =
                 IF PriceOf(last.op, PLAN_BASIC) THEN PLAN_BASIC
                 ELSE IF PriceOf(last.op, PLAN_PRO) THEN PLAN_PRO
                 ELSE last.pre.current_plan

\* C28: the subscription deleted handler, for the account it found in whatever
\* state and the database carrying out the save, leaves the account inactive,
\* with plan none and no subscription reference, and total_amount_paid and the
\* customer reference as they were.
C28_DeletedEventApplied ==
    (Handled("customer.subscription.deleted") /\ last.fault # "database")
        => /\ EndsCancelled
           /\ db[last.op.uid].total_amount_paid = last.pre.total_amount_paid
           /\ db[last.op.uid].stripe_customer_id = last.pre.stripe_customer_id

\* A deleted event was applied to an active account that had paid.
C28_Witness ==
    /\ Handled("customer.subscription.deleted")
    /\ last.pre.subscription_status = SUBSCRIPTION_STATUS_ACTIVE
    /\ last.pre.total_amount_paid > 0
    /\ EndsCancelled
    /\ db[last.op.uid].total_amount_paid = last.pre.total_amount_paid

\* C29: the invoice payment failed handler assigns nothing to the account it
\* found and changes no persisted row.
C29_PaymentFailedChangesNothing ==
    [][last'.op.type = "invoice.payment_failed"
          => /\ last'.ret = "success"
             /\ last'.user = last'.pre
             /\ db' = db]_vars

\* A payment failed event was handled for an active account.
C29_Witness ==
    /\ Handled("invoice.payment_failed")
    /\ last.ret = "success"
    /\ last.pre.subscription_status = SUBSCRIPTION_STATUS_ACTIVE
    /\ db[last.op.uid] = last.pre

\* C30: when an event of one of the five handled types carries no customer
\* reference, or one that no account has, the handler finds no account,
\* changes no persisted row, and the webhook is answered with success.
C30_UnknownCustomerAcknowledged ==
    [][(/\ last'.op.kind = "webhook"
        /\ last'.op.type \in EventTypes
        /\ \/ ~Truthy(last'.op.customer)
           \/ \A u \in Users : db[u].stripe_customer_id # last'.op.customer)
          => /\ last'.op.uid = NoUser
             /\ last'.ret = "success"
             /\ db' = db]_vars

\* An event about a customer that no account has was acknowledged.
C30_Witness ==
    /\ last.op.kind = "webhook"
    /\ last.op.type = "customer.subscription.deleted"
    /\ Truthy(last.op.customer)
    /\ last.op.uid = NoUser
    /\ last.ret = "success"
    /\ \E u \in Users : Truthy(db[u].stripe_customer_id)

\* C31: when a subscription created, subscription updated, subscription deleted
\* or invoice payment failed event is delivered again right after its delivery
\* has ended, and the database carries out the saves, the second delivery
\* leaves the persisted account as the first delivery left it.
C31_RedeliveryIdempotent ==
    (/\ last.op.kind = "webhook"
     /\ last.op.uid \in Users
     /\ last.op.type \in EventTypes \ {"invoice.paid"}
     /\ last.op.again
     /\ last.fault # "database")
        => db[last.op.uid] = last.pre

\* A subscription updated event that had made the account inactive was
\* delivered a second time.
C31_Witness ==
    /\ Handled("customer.subscription.updated")
    /\ last.op.again
    /\ last.op.status = "past_due"
    /\ last.fault = ""
    /\ db[last.op.uid].subscription_status = SUBSCRIPTION_STATUS_INACTIVE
    /\ db[last.op.uid].stripe_subscription_id = last.op.sub
    /\ db[last.op.uid] = last.pre

\* C32: a webhook delivery whose payload or signature construct_event refuses,
\* or that arrives while the secret key or the webhook secret is not set, is
\* answered with a status other than success, starts no handler and changes no
\* persisted row.
C32_RejectedDeliveryChangesNothing ==
    [][/\ (/\ last'.op.kind = "webhook"
           /\ \/ last'.op.verdict \in Verdicts \ {"valid"}
              \/ ~settings.key
              \/ ~settings.secret)
          => /\ last'.ret \in {"400", "500"}
             /\ last'.op.uid = NoUser
             /\ db' = db
             /\ credited' = credited
       /\ \A w \in Workers :
            (pc'[w] = "handler" /\ pc[w] # "handler")
                => /\ req'[w].op.verdict = "valid"
                   /\ settings.key
                   /\ settings.secret]_vars

\* A delivery with a bad signature was answered 400 while an account was
\* subscribed.
C32_Witness ==
    /\ last.op.kind = "webhook"
    /\ last.op.verdict = "bad_signature"
    /\ last.ret = "400"
    /\ \E u \in Users : Truthy(db[u].stripe_customer_id)

\* C33: a plan-change request whose plan is none of basic, pro and none is
\* answered 400 by the view; the service is never entered with such a plan, no
\* gateway call is made, no row lock is taken and no row is written.
C33_InvalidPlanRejected ==
    [][/\ \A w \in Workers : req'[w].op.plan \in PLAN_CHOICES
       /\ (last'.op.kind \in {"view", "plan"} /\ last'.op.plan \notin PLAN_CHOICES)
             => /\ last'.op.kind = "view"
                /\ last'.ret = "400"
                /\ last'.calls = NoCalls
                /\ db' = db
                /\ tx' = tx
                /\ rowlock' = rowlock
                /\ customers' = customers
                /\ subscriptions' = subscriptions]_vars

\* A request for a plan that does not exist was refused for a subscribed
\* account.
C33_Witness ==
    /\ last.op.kind = "view"
    /\ last.op.plan \notin PLAN_CHOICES
    /\ last.ret = "400"
    /\ last.op.uid \in Users
    /\ Truthy(db[last.op.uid].stripe_subscription_id)

\* C34: in no step does a persisted stripe_customer_id that has a value change
\* to another customer's id, and no two accounts ever have the same persisted
\* stripe_customer_id.
C34_CustomerRefStable ==
    [][/\ \A u \in Users :
            (Truthy(db[u].stripe_customer_id) /\ Truthy(db'[u].stripe_customer_id))
                => db'[u].stripe_customer_id = db[u].stripe_customer_id
       /\ \A u, v \in Users :
            (u # v /\ Truthy(db'[u].stripe_customer_id))
                => db'[u].stripe_customer_id # db'[v].stripe_customer_id]_vars

\* C35: invoice paid handlers of one account run one after the other: a
\* handler starts on a row only while no other handler holds it, and the save
\* it commits adds its amount to the total that is persisted at that moment, so
\* that two events with amounts A and B leave the initial total plus A plus B.
C35_InvoiceHandlersSerialized ==
    [][\A w \in Workers :
          /\ (pc'[w] = "handler" /\ pc[w] = "idle")
                => \A o \in Workers \ {w} :
                      ~(pc[o] = "handler" /\ req[o].op.uid = req'[w].op.uid)
          /\ (/\ pc[w] = "handler"
              /\ Moved(w)
              /\ req[w].op.type = "invoice.paid"
              /\ last'.fault = "")
                => /\ req[w].pre = db[req[w].op.uid]
                   /\ db'[req[w].op.uid].total_amount_paid
                        = db[req[w].op.uid].total_amount_paid + req[w].op.amount]_vars

\* The second of two invoice paid events was committed on top of the first.
C35_Witness ==
    /\ Handled("invoice.paid")
    /\ last.fault = ""
    /\ last.op.amount > 0
    /\ last.pre.total_amount_paid > 0
    /\ db[last.op.uid].total_amount_paid = last.pre.total_amount_paid + last.op.amount
    /\ db[last.op.uid].total_amount_paid = credited[last.op.uid]

\* The remote subscriptions of the account u that exist, and the remote
\* customers created for it.
LiveOf(u) ==
    {n \in 1..Len(subscriptions) :
        subscriptions[n].live /\ customers[subscriptions[n].customer.n] = u}

CustomersOf(u) == {n \in 1..Len(customers) : customers[n] = u}

\* Every call has ended.
Quiet == \A w \in Workers : pc[w] = "idle"

\* C36: after any sequence and interleaving of handle_subscription_update
\* calls, once they have ended, an account has at most one live remote
\* subscription, and the persisted stripe_subscription_id is the id of the
\* live one.
C36_OneLiveSubscription ==
    Quiet => \A u \in Users :
                /\ Cardinality(LiveOf(u)) <= 1
                /\ \A n \in LiveOf(u) : db[u].stripe_subscription_id = SubId(n)

\* C37: when handle_subscription_update with target none has returned for an
\* account that referenced the remote subscription S and the account is
\* persisted inactive, with plan none and no reference, S is not live at the
\* gateway.
C37_CancelledMeansGone ==
    (/\ PlanEnded
     /\ last.op.plan = PLAN_NONE
     /\ last.ret = "ok"
     /\ Truthy(last.pre.stripe_subscription_id)
     /\ EndsCancelled)
        => ~IsLive(last.pre.stripe_subscription_id)

\* C38: after any sequence of handle_subscription_update calls, once they have
\* ended, at most one remote customer has been created for an account, and
\* every customer created for it is its persisted stripe_customer_id.
C38_OneCustomer ==
    Quiet => \A u \in Users :
                /\ Cardinality(CustomersOf(u)) <= 1
                /\ \A n \in CustomersOf(u) : db[u].stripe_customer_id = CusId(n)

\* A subscription created or updated event for the subscription s has just
\* left the account u active with s as its reference.
Reactivated(u, s) ==
    /\ Handled("customer.subscription.created") \/ Handled("customer.subscription.updated")
    /\ last.op.uid = u
    /\ last.op.sub = s
    /\ db[u].subscription_status = SUBSCRIPTION_STATUS_ACTIVE
    /\ db[u].stripe_subscription_id = s

\* C39: once a subscription deleted event for S has been applied to an
\* account, no later subscription created or updated event for S leaves the
\* account active with S as its reference.
C39_DeletedStaysDeleted ==
    \A u \in Users : \A s \in deleted[u] : ~Reactivated(u, s)

\* C40: when a subscription deleted event for the account's subscription has
\* committed between the load of the Updater's account and its save, the
\* Updater's commit does not bring back the deleted subscription's id or the
\* earlier status.
C40_UpdaterKeepsDeletion ==
    [][\A w \in Workers :
          (/\ pc[w] = "update"
           /\ Moved(w)
           /\ last'.ret = "ok"
           /\ Truthy(req[w].pre.stripe_subscription_id)
           /\ db[req[w].op.uid] = handle_subscription_deleted(req[w].pre, req[w].op))
              => /\ db'[req[w].op.uid].stripe_subscription_id
                       # req[w].pre.stripe_subscription_id
                 /\ db'[req[w].op.uid].subscription_status
                       = db[req[w].op.uid].subscription_status]_vars

====
